---- MODULE Spec2Model ----
(***************************************************************************)
(* ruuvitag-upload, src/main.rs: the store-and-forward relay of run().     *)
(*                                                                         *)
(* One invocation collects one batch of measurements, then, with --url,    *)
(* uploads the cached batches (upload_cached_measurements), then the fresh *)
(* batch, and caches the fresh batch (cache_measurements) when an upload   *)
(* failed.  The cache is a directory of files "<unix seconds>.json".       *)
(*                                                                         *)
(* A batch is identified by the number of the invocation that collected    *)
(* it, so a smaller batch number is an older batch.  A cache file          *)
(* "<n>.json" is identified by n, the clock reading that named it.         *)
(*                                                                         *)
(* SpecFind follows one call of find_cached_measurements entry by entry,   *)
(* and SpecCollect one call of collect_measurements with its callback      *)
(* thread and channel, up to the end of the invocation that made it.       *)
(***************************************************************************)
EXTENDS Integers, Sequences, FiniteSets, TLC

\* Number of invocations whose batches are told apart.
MaxBatch == 3

\* Largest clock reading (seconds); the readings straddle a change in the
\* number of decimal digits, as 999999999 -> 1000000000 does.
MaxClock == 11

\* Number of advertisement events the adapter reports during one collection.
MaxEvents == 4

ClockValues == 9 .. MaxClock

\* Batch numbers.  The invocations after the first MaxBatch ones, which the
\* model lets run only in the recovered environment, all collect "the" batch
\* MaxBatch + 1: each of them gets its batch acknowledged before it ends, so
\* that number never names two batches that are still to be delivered.
Batches == 1 .. MaxBatch + 1

\* Content of a cache file that serde_json::from_reader rejects: what a
\* failed write_all leaves behind after File::create truncated the file.
Corrupt == 0

VARIABLES
    store,        \* cache directory: clock reading n (file "<n>.json") -> content
    dirExists,    \* the cache directory exists
    pc,           \* position of the invocation in run()
    url,          \* args.flag_url is Some
    fresh,        \* the batch collected by this invocation (0: none)
    nextId,       \* number of the next batch to be collected
    paths,        \* upload_cached_measurements: the paths still to be uploaded
    drainErr,     \* what made upload_cached_measurements return Err ("none": Ok)
    exit,         \* result of run(): "none" while running, "ok", "err"
    out,          \* batch printed on stdout by this invocation (0: none)
    acks,         \* history: per batch, how often the sink answered with success
    log,          \* history: the POSTs of this invocation, in order
    persisted,    \* history: batches cache_measurements wrote completely
    removeFails,  \* history: per batch, how often remove_file failed after its POST succeeded
    store0,       \* history: the cache directory when this invocation started
    healthy       \* from now on every POST succeeds and every file operation succeeds

\* One call of find_cached_measurements on a directory with other entries.
VARIABLES
    meta,         \* what fs::metadata(cache_dir) returns: "dir", "notfound", "error"
    dirents,      \* the directory: entry name -> "file" or "dir"
    unread,       \* entries that read_dir has not yielded yet
    result,       \* the Vec result
    fpc           \* position in find_cached_measurements ("off": not called)

\* One call of collect_measurements, the callback thread included.
VARIABLES
    sensors,      \* the table of run(): address -> alias
    queue,        \* the channel: measurements sent and not yet received
    sent,         \* history: the measurements the channel accepted, in order
    consumed,     \* history: the measurements recv() returned, in order
    measurements, \* the HashMap measurements: alias -> measurement
    cpc,          \* position in collect_measurements ("off": not followed)
    producer,     \* the callback and its Sender: "running", "closed", "panicked"
    events,       \* number of events the adapter has reported
    dropped       \* history: number of send() calls that returned Err

relayVars == <<store, dirExists, pc, url, fresh, nextId, paths, drainErr, exit, out,
               acks, log, persisted, removeFails, store0, healthy>>

listVars == <<meta, dirents, unread, result, fpc>>

\* The variables the steps of run() leave alone.
collVars == <<sensors, queue, sent, consumed, measurements, cpc, producer, events,
              dropped>>

\* The variables the steps of run() leave alone.
nonRelayVars == <<listVars, collVars>>

\* The variables find_cached_measurements leaves alone.
nonListVars == <<relayVars, collVars>>

\* The variables collect_measurements and its callback leave alone.
nonCollVars == <<relayVars, listVars>>

vars == <<relayVars, listVars, collVars>>

----------------------------------------------------------------------------
(* File names and their order *)

RECURSIVE Decimal(_)
\* format!("{}", secs): the decimal digits of n as character codes.
Decimal(n) ==
    IF n < 10 THEN <<48 + n>> ELSE Append(Decimal(n \div 10), 48 + (n % 10))

\* format!("{}.json", secs)
FileName(n) == Decimal(n) \o <<46, 106, 115, 111, 110>>

RECURSIVE LexLess(_, _)
\* Ord of two file names: byte-wise lexicographic order.
LexLess(a, b) ==
    IF a = <<>> THEN b # <<>>
    ELSE IF b = <<>> THEN FALSE
    ELSE IF Head(a) # Head(b) THEN Head(a) < Head(b)
    ELSE LexLess(Tail(a), Tail(b))

PathLess(m, n) == LexLess(FileName(m), FileName(n))

RECURSIVE SortPathsReversed(_)
\* A sort in descending order.
SortPathsReversed(S) ==
    IF S = {} THEN <<>>
    ELSE LET last == CHOOSE m \in S : \A n \in S \ {m} : PathLess(n, m)
         IN  <<last>> \o SortPathsReversed(S \ {last})

RECURSIVE SortPaths(_)
\* result.sort(): the paths of S in ascending order.
SortPaths(S) ==
    IF S = {} THEN <<>>
    ELSE LET least == CHOOSE m \in S : \A n \in S \ {m} : PathLess(m, n)
         IN  <<least>> \o SortPaths(S \ {least})

\* find_cached_measurements on an accessible directory: the ".json" files, sorted.
find_cached_measurements(s) == SortPaths(DOMAIN s)

----------------------------------------------------------------------------
(* File operations *)

\* A removal that empties the directory.
RemoveFileAll(s, n) == [m \in {} |-> Corrupt]

\* A remove_file that reports success and leaves the file in place.
RemoveFileKept(s, n) == s

\* fs::remove_file(&path)
RemoveFile(s, n) == [m \in DOMAIN s \ {n} |-> s[m]]

\* A create that leaves an existing file as it is.
WriteFileKeepExisting(s, n, c) ==
    [m \in DOMAIN s \cup {n} |-> IF m \in DOMAIN s THEN s[m] ELSE c]

\* File::create(path) followed by a write of content c: creates or truncates.
WriteFile(s, n, c) == [m \in DOMAIN s \cup {n} |-> IF m = n THEN c ELSE s[m]]

\* Outcomes the environment may produce now: after healthy, only success.
Outcomes(all) == IF healthy THEN {"ok"} ELSE all

----------------------------------------------------------------------------
\* The state of run() before its first invocation.
RelayInit ==
    /\ store = <<>>
    /\ dirExists = FALSE
    /\ pc = "idle"
    /\ url = FALSE
    /\ fresh = 0
    /\ nextId = 1
    /\ paths = <<>>
    /\ drainErr = "none"
    /\ exit = "none"
    /\ out = 0
    /\ acks = [b \in Batches |-> 0]
    /\ log = <<>>
    /\ persisted = {}
    /\ removeFails = [b \in Batches |-> 0]
    /\ store0 = <<>>
    /\ healthy = FALSE

\* find_cached_measurements is not being followed.
ListOff ==
    /\ meta = "notfound"
    /\ dirents = <<>>
    /\ unread = {}
    /\ result = <<>>
    /\ fpc = "off"

\* collect_measurements is not being followed.
CollectOff ==
    /\ sensors = <<>>
    /\ queue = <<>>
    /\ sent = <<>>
    /\ consumed = <<>>
    /\ measurements = <<>>
    /\ cpc = "off"
    /\ producer = "closed"
    /\ events = 0
    /\ dropped = 0

Init == RelayInit /\ ListOff /\ CollectOff

----------------------------------------------------------------------------
(* run() *)

\* A run() that POSTs the fresh batch whatever upload_cached_measurements returned.
AfterDrainRetry(err) == "fresh"

\* run(), lines 164-173: an Err of upload_cached_measurements sends the fresh
\* batch to cache_measurements, an Ok sends it to the POST of line 175.
AfterDrain(err) == IF err = "none" THEN "fresh" ELSE "cache"

\* A run() that drops the result of cache_measurements.
RunResultIgnored(cached) == "ok"

\* run() lines 169 and 186: the ? after cache_measurements returns its Err
\* from run; otherwise run returns Ok(()).
RunResult(cached) == IF cached THEN "ok" ELSE "err"

\* A run() that takes the upload branch without looking at --url.
RouteAlwaysUpload(u) == "list"

\* run() line 163 and line 188: with --url the batch goes to the upload
\* branch, without it to println!.
Route(u) == IF u THEN "list" ELSE "stdout"

\* One more POST in the history of this invocation: batch b, read from cache
\* file n (0: the fresh batch, not read from a file), answered with success or not.
Posted(b, n, ok) == Append(log, [batch |-> b, path |-> n, ok |-> ok])

\* The sink answered batch b with a success status.
Acked(b) == [acks EXCEPT ![b] = @ + 1]

\* run() up to line 163: arguments parsed and collect_measurements returned
\* the batch; u is whether --url was given.  After the recovery the
\* invocations are the ones made against the sink, and they go on past
\* MaxBatch under the batch number MaxBatch + 1, whose count of
\* acknowledgements starts again with each of them.
Invoke(u) ==
    /\ pc \in {"idle", "done"}
    /\ nextId <= MaxBatch \/ healthy
    /\ healthy => u
    /\ fresh' = nextId
    /\ nextId' = IF nextId <= MaxBatch THEN nextId + 1 ELSE nextId
    /\ acks' = IF nextId <= MaxBatch THEN acks ELSE [acks EXCEPT ![nextId] = 0]
    /\ url' = u
    /\ pc' = Route(u)
    /\ paths' = <<>>
    /\ drainErr' = "none"
    /\ exit' = "none"
    /\ out' = 0
    /\ log' = <<>>
    /\ store0' = store
    /\ UNCHANGED <<store, dirExists, persisted, removeFails, healthy>>

\* run() line 161: collect_measurements returned Err, run returns it.
CollectFails ==
    /\ pc \in {"idle", "done"}
    /\ ~healthy
    /\ nextId <= MaxBatch
    /\ fresh' = 0
    /\ url' = FALSE
    /\ pc' = "done"
    /\ paths' = <<>>
    /\ drainErr' = "none"
    /\ exit' = "err"
    /\ out' = 0
    /\ log' = <<>>
    /\ store0' = store
    /\ UNCHANGED <<store, dirExists, nextId, acks, persisted, removeFails, healthy>>

\* run() lines 188-192: no --url, the batch is printed.
PrintStdout ==
    /\ pc = "stdout"
    /\ out' = fresh
    /\ exit' = "ok"
    /\ pc' = "done"
    /\ UNCHANGED <<store, dirExists, url, fresh, nextId, paths, drainErr,
                   acks, log, persisted, removeFails, store0, healthy>>
    /\ UNCHANGED nonRelayVars

\* upload_cached_measurements line 225: get_cache_dir and
\* find_cached_measurements.  A directory that does not exist is Ok(empty);
\* any other error of metadata, read_dir or an entry is Err.
ListPending ==
    /\ pc = "list"
    /\ \E o \in Outcomes({"ok", "err"}) :
         IF o = "err"
         THEN /\ drainErr' = "list"
              /\ paths' = <<>>
              /\ pc' = AfterDrain("list")
         ELSE /\ drainErr' = "none"
              /\ paths' = IF dirExists THEN find_cached_measurements(store) ELSE <<>>
              /\ pc' = IF paths' = <<>> THEN AfterDrain("none") ELSE "drain"
    /\ UNCHANGED <<store, dirExists, url, fresh, nextId, exit, out,
                   acks, log, persisted, removeFails, store0, healthy>>
    /\ UNCHANGED nonRelayVars

\* What one iteration of the loop of lines 229-239 can do with content c:
\* File::open fails, from_reader fails, the POST fails (send or
\* error_for_status), remove_file fails, or all four succeed.
DrainOutcomes(c) ==
    IF c = Corrupt
    THEN (Outcomes({"open", "ok"}) \ {"ok"}) \cup {"parse"}
    ELSE Outcomes({"open", "parse", "post", "remove", "ok"})

\* upload_cached_measurements lines 229-239: one iteration of the loop.
DrainStep ==
    /\ pc = "drain"
    /\ paths # <<>>
    /\ LET n == Head(paths)
           c == store[n]
       IN  \E o \in DrainOutcomes(c) :
             /\ log' = IF o \in {"post", "remove", "ok"}
                       THEN Posted(c, n, o # "post") ELSE log
             /\ acks' = IF o \in {"remove", "ok"} THEN Acked(c) ELSE acks
             /\ removeFails' = IF o = "remove"
                               THEN [removeFails EXCEPT ![c] = @ + 1] ELSE removeFails
             /\ IF o = "ok"
                THEN /\ store' = RemoveFile(store, n)
                     /\ paths' = Tail(paths)
                     /\ drainErr' = "none"
                     /\ pc' = IF paths' = <<>> THEN AfterDrain("none") ELSE "drain"
                ELSE /\ store' = store
                     /\ paths' = paths
                     /\ drainErr' = o
                     /\ pc' = AfterDrain(o)
    /\ UNCHANGED <<dirExists, url, fresh, nextId, exit, out, persisted, store0, healthy>>
    /\ UNCHANGED nonRelayVars

\* run() lines 173-187: the POST of the fresh batch.
PostFresh ==
    /\ pc = "fresh"
    /\ \E o \in Outcomes({"ok", "err"}) :
         /\ log' = Posted(fresh, 0, o = "ok")
         /\ IF o = "ok"
            THEN /\ acks' = Acked(fresh)
                 /\ pc' = "done"
                 /\ exit' = "ok"
            ELSE /\ acks' = acks
                 /\ pc' = "cache"
                 /\ exit' = exit
    /\ UNCHANGED <<store, dirExists, url, fresh, nextId, paths, drainErr, out,
                   persisted, removeFails, store0, healthy>>
    /\ UNCHANGED nonRelayVars

\* cache_measurements, called at line 169 or 186, and the return of run().
\* now is SystemTime::now() in seconds.  The outcomes: get_cache_dir or
\* create_dir_all fails; File::create fails; write_all fails after the file
\* was created or truncated; all succeed.
CacheMeasurements ==
    /\ pc = "cache"
    /\ \E now \in ClockValues, o \in Outcomes({"dir", "create", "write", "ok"}) :
         /\ dirExists' = IF o = "dir" THEN dirExists ELSE TRUE
         /\ store' = CASE o = "write" -> WriteFile(store, now, Corrupt)
                       [] o = "ok"    -> WriteFile(store, now, fresh)
                       [] OTHER       -> store
         /\ persisted' = IF o = "ok" THEN persisted \cup {fresh} ELSE persisted
         /\ exit' = RunResult(o = "ok")
    /\ pc' = "done"
    /\ UNCHANGED <<url, fresh, nextId, paths, drainErr, out, acks, log,
                   removeFails, store0, healthy>>
    /\ UNCHANGED nonRelayVars

\* The environment recovers for good: from here on the sink accepts every
\* POST and no file operation fails.  Taken between invocations and from a
\* cache whose files all parse (a file that does not parse stops every drain
\* that reaches it, recovery or not).
Heal ==
    /\ ~healthy
    /\ pc \in {"idle", "done"}
    /\ \A n \in DOMAIN store : store[n] # Corrupt
    /\ healthy' = TRUE
    /\ UNCHANGED <<store, dirExists, pc, url, fresh, nextId, paths, drainErr,
                   exit, out, acks, log, persisted, removeFails, store0>>
    /\ UNCHANGED nonRelayVars

\* An invocation of the program whose collection is not followed step by step.
Start(u) == Invoke(u) /\ UNCHANGED nonRelayVars

\* An invocation whose collection fails.
StartFails == CollectFails /\ UNCHANGED nonRelayVars

Next ==
    \/ \E u \in BOOLEAN : Start(u)
    \/ StartFails
    \/ PrintStdout
    \/ ListPending
    \/ DrainStep
    \/ PostFresh
    \/ CacheMeasurements
    \/ Heal

Spec == Init /\ [][Next]_vars

\* Invocations with --url keep being made and each runs to its end.
FairSpec ==
    /\ Spec
    /\ WF_vars(Start(TRUE))
    /\ WF_vars(ListPending)
    /\ WF_vars(DrainStep)
    /\ WF_vars(PostFresh)
    /\ WF_vars(CacheMeasurements)

----------------------------------------------------------------------------
(* find_cached_measurements, entry by entry *)

\* Path::extension() of a name without an extension: None.
NoExtension == <<0>>

RECURSIVE LastDot(_)
\* Position of the last '.' of a name, 0 if it has none.
LastDot(name) ==
    IF name = <<>> THEN 0
    ELSE IF name[Len(name)] = 46 THEN Len(name)
    ELSE LastDot(SubSeq(name, 1, Len(name) - 1))

\* An extension test that takes everything after the last '.' of the name,
\* also when the name starts with that '.'.
ExtensionOfHidden(name) ==
    IF LastDot(name) = 0 THEN NoExtension
    ELSE SubSeq(name, LastDot(name) + 1, Len(name))

\* path.extension(), line 211: the part of the file name after its last
\* '.', None when the name has no '.' or only a leading one.
Extension(name) ==
    IF LastDot(name) <= 1 THEN NoExtension
    ELSE SubSeq(name, LastDot(name) + 1, Len(name))

\* Lines 209-215: the entry is pushed when it is a regular file whose
\* extension is "json".
Keeps(name, type) == type = "file" /\ Extension(name) = <<106, 115, 111, 110>>

RECURSIVE InsertSorted(_, _)
\* x put at its place in the ascending sequence q.
InsertSorted(x, q) ==
    IF q = <<>> THEN <<x>>
    ELSE IF LexLess(x, Head(q)) THEN <<x>> \o q
    ELSE <<Head(q)>> \o InsertSorted(x, Tail(q))

\* A function that returns the paths in the order read_dir yielded them.
SortVecMissing(q) == q

RECURSIVE SortVec(_)
\* result.sort(), line 219.
SortVec(q) == IF q = <<>> THEN <<>> ELSE InsertSorted(Head(q), SortVec(Tail(q)))

\* Names a cache directory may hold: the cache files, "10.txt" and ".json".
EntryNames ==
    {FileName(n) : n \in ClockValues}
        \cup {Decimal(10) \o <<46, 116, 120, 116>>, <<46, 106, 115, 111, 110>>}

\* Kinds of directory entries: regular files and directories.
EntryTypes == {"file", "dir"}

\* A call of find_cached_measurements: any outcome of fs::metadata and, for
\* a directory, any content.
FindInit ==
    /\ RelayInit
    /\ CollectOff
    /\ meta \in {"dir", "notfound", "error"}
    /\ dirents \in UNION {[S -> EntryTypes] : S \in SUBSET EntryNames}
    /\ meta # "dir" => DOMAIN dirents = {}
    /\ unread = {}
    /\ result = <<>>
    /\ fpc = "start"

\* Lines 196-206: metadata, then read_dir.  NotFound returns the empty
\* result, any other error of metadata or read_dir is returned.
FindStart ==
    /\ fpc = "start"
    /\ \E o \in {"ok", "err"} :
         /\ fpc' = CASE meta = "notfound" -> "returned"
                      [] meta = "error"    -> "error"
                      [] OTHER             -> IF o = "ok" THEN "loop" ELSE "error"
         /\ unread' = IF meta = "dir" /\ o = "ok" THEN DOMAIN dirents ELSE unread
    /\ UNCHANGED <<meta, dirents, result, nonListVars>>

\* Lines 206-217: one entry of the directory, in whatever order read_dir
\* yields them; entry? or file_type()? may fail.
FindEntry ==
    /\ fpc = "loop"
    /\ \E e \in unread, o \in {"ok", "err"} :
         IF o = "err"
         THEN /\ fpc' = "error"
              /\ UNCHANGED <<unread, result>>
         ELSE /\ fpc' = fpc
              /\ unread' = unread \ {e}
              /\ result' = IF Keeps(e, dirents[e]) THEN Append(result, e) ELSE result
    /\ UNCHANGED <<meta, dirents, nonListVars>>

\* Lines 219-221: the directory is read; sort and return.
FindSort ==
    /\ fpc = "loop"
    /\ unread = {}
    /\ result' = SortVec(result)
    /\ fpc' = "returned"
    /\ UNCHANGED <<meta, dirents, unread, nonListVars>>

FindNext == FindStart \/ FindEntry \/ FindSort

SpecFind == FindInit /\ [][FindNext]_vars

----------------------------------------------------------------------------
(* collect_measurements and the on_event callback *)

\* Addresses of advertising devices, as format!("{}", address) prints them.
Addresses == {1, 2, 3}

\* Addresses a command line names; the other one is always foreign.
Expected == {1, 2}

\* Aliases a command line gives.
Aliases == {1, 2}

\* The tables run() lines 154-159 can build: a HashMap from address to
\* alias.  Two addresses may be given the same alias, and collect_measurements
\* takes any HashMap, the empty one too.
Tables == UNION {[S -> Aliases] : S \in SUBSET Expected}

\* Sensor values an event of address a may carry; the values of a foreign
\* device are not told apart.
Values(a) == IF a \in Expected THEN {1, 2} ELSE {1}

\* Measurement::new, lines 42-54: the address and the decoded values.
Measurement(a, v) == [address |-> a, value |-> v]

\* The cache directory of a machine on which an earlier invocation cached its
\* batch at clock reading MaxClock, and the bookkeeping of that invocation.
RelayCached ==
    /\ nextId = 2
    /\ store = WriteFile(<<>>, MaxClock, nextId - 1)
    /\ dirExists = TRUE
    /\ pc = "idle"
    /\ url = FALSE
    /\ fresh = 0
    /\ paths = <<>>
    /\ drainErr = "none"
    /\ exit = "none"
    /\ out = 0
    /\ acks = [b \in Batches |-> 0]
    /\ log = <<>>
    /\ persisted = {store[n] : n \in DOMAIN store}
    /\ removeFails = [b \in Batches |-> 0]
    /\ store0 = store
    /\ healthy = FALSE

\* The start of an invocation: run() has built the table and calls
\* collect_measurements, line 161.
CollectInit ==
    /\ RelayInit \/ RelayCached
    /\ ListOff
    /\ sensors \in Tables
    /\ queue = <<>>
    /\ sent = <<>>
    /\ consumed = <<>>
    /\ measurements = <<>>
    /\ cpc = "setup"
    /\ producer = "running"
    /\ events = 0
    /\ dropped = 0

\* A loop that tests the table before its first recv().
LoopStartChecked(t) == IF DOMAIN t = {} THEN "stop" ELSE "scan"

\* Lines 301-304: the loop starts with recv(), whatever the table holds.
LoopStart(t) == "scan"

\* Lines 278-299: Manager::new, adapters, down, up, connect, on_event and
\* start_scan; each "?" returns the error.
CollectSetup ==
    /\ cpc = "setup"
    /\ \E o \in {"ok", "err"} :
         cpc' = IF o = "ok" THEN LoopStart(sensors) ELSE "err_setup"
    /\ UNCHANGED <<sensors, queue, sent, consumed, measurements, producer, events, dropped>>
    /\ UNCHANGED nonCollVars

\* The Receiver meas_rx exists: from channel(), line 289, to the return.
RxAlive == cpc \in {"scan", "stop"}

\* The callback is being followed: the scan has started and run() has not
\* taken the result of collect_measurements yet.
Scanning == cpc \in {"scan", "stop", "returned", "err_stop"} /\ pc = "idle"

\* A callback that unwraps the result of send().
AfterSendUnwrap(delivered) == IF delivered THEN "running" ELSE "panicked"

\* Line 294, let _ = meas_tx.send(measurement): the result is dropped.
AfterSend(delivered) == "running"

\* Lines 291-297: the callback decoded a measurement and sends it.  send()
\* never blocks; it fails when the Receiver is gone.
EventDecoded(a, v) ==
    /\ Scanning
    /\ producer = "running"
    /\ events < MaxEvents
    /\ events' = events + 1
    /\ queue' = IF RxAlive THEN Append(queue, Measurement(a, v)) ELSE queue
    /\ sent' = IF RxAlive THEN Append(sent, Measurement(a, v)) ELSE sent
    /\ dropped' = IF RxAlive THEN dropped ELSE dropped + 1
    /\ producer' = AfterSend(RxAlive)
    /\ UNCHANGED <<sensors, consumed, measurements, cpc>>
    /\ UNCHANGED nonCollVars

\* Lines 292-293 and on_event, lines 318-347: an event that is no discovery
\* or update, a peripheral that is unknown, or manufacturer data that do not
\* parse.  Nothing is sent.
EventIgnored ==
    /\ Scanning
    /\ producer = "running"
    /\ events < MaxEvents
    /\ events' = events + 1
    /\ UNCHANGED <<sensors, queue, sent, consumed, measurements, cpc, producer, dropped>>
    /\ UNCHANGED nonCollVars

\* The adapter drops the callback and with it the Sender meas_tx.
CloseStream ==
    /\ Scanning
    /\ producer = "running"
    /\ producer' = "closed"
    /\ UNCHANGED <<sensors, queue, sent, consumed, measurements, cpc, events, dropped>>
    /\ UNCHANGED nonCollVars

\* An insert that keeps the entry an alias already has.
InsertKeepFirst(ms, alias, m) ==
    [k \in DOMAIN ms \cup {alias} |-> IF k \in DOMAIN ms THEN ms[k] ELSE m]

\* HashMap::insert, line 306: the entry of the alias is set or replaced.
Insert(ms, alias, m) ==
    [k \in DOMAIN ms \cup {alias} |-> IF k = alias THEN m ELSE ms[k]]

\* A test that is satisfied by the first entry.
CompleteAny(ms, t) == Cardinality(DOMAIN ms) >= 1

\* A test that compares the aliases collected with the aliases of the table.
CompleteByAlias(ms, t) == DOMAIN ms = {t[a] : a \in DOMAIN t}

\* A test that is never satisfied.
CompleteNever(ms, t) == Cardinality(DOMAIN ms) > Cardinality(DOMAIN t)

\* Line 307: measurements.len() == sensors.len().
Complete(ms, t) == Cardinality(DOMAIN ms) = Cardinality(DOMAIN t)

\* Lines 304-310: recv() returns the oldest measurement of the channel; a
\* measurement of a table address is inserted under its alias and only then
\* is the length tested.
Recv ==
    /\ cpc = "scan"
    /\ queue # <<>>
    /\ LET m == Head(queue)
       IN  /\ consumed' = Append(consumed, m)
           /\ queue' = Tail(queue)
           /\ IF m.address \in DOMAIN sensors
              THEN /\ measurements' = Insert(measurements, sensors[m.address], m)
                   /\ cpc' = IF Complete(measurements', sensors) THEN "stop" ELSE "scan"
              ELSE UNCHANGED <<measurements, cpc>>
    /\ UNCHANGED <<sensors, sent, producer, events, dropped>>
    /\ UNCHANGED nonCollVars

\* A recv() error that ends the loop with what has been collected.
OnDisconnectBreak(ms) == "stop"

\* Line 304, recv()?: the error is returned.
OnDisconnect(ms) == "err_recv"

\* Line 304: the channel is empty and the Sender is gone, recv() returns Err.
RecvDisconnected ==
    /\ cpc = "scan"
    /\ queue = <<>>
    /\ producer # "running"
    /\ cpc' = OnDisconnect(measurements)
    /\ UNCHANGED <<sensors, queue, sent, consumed, measurements, producer, events, dropped>>
    /\ UNCHANGED nonCollVars

\* Lines 313-315: stop_scan()? and the return; the Receiver is dropped with
\* what it still holds.
StopScan ==
    /\ cpc = "stop"
    /\ \E o \in {"ok", "err"} : cpc' = IF o = "ok" THEN "returned" ELSE "err_stop"
    /\ queue' = <<>>
    /\ UNCHANGED <<sensors, sent, consumed, measurements, producer, events, dropped>>
    /\ UNCHANGED nonCollVars

\* run() lines 161-163: collect_measurements returned Ok(measurements); run
\* goes on with the batch.
Handoff(u) ==
    /\ cpc = "returned"
    /\ pc = "idle"
    /\ Invoke(u)
    /\ cpc' = "handed"
    /\ sent' = <<>>
    /\ consumed' = <<>>
    /\ events' = 0
    /\ dropped' = 0
    /\ UNCHANGED <<sensors, queue, measurements, producer, listVars>>

\* run() line 161: collect_measurements returned Err; "?" returns it.
HandoffErr ==
    /\ cpc \in {"err_setup", "err_recv", "err_stop"}
    /\ pc = "idle"
    /\ CollectFails
    /\ UNCHANGED <<collVars, listVars>>

CollectNext ==
    \/ CollectSetup
    \/ \E a \in Addresses : \E v \in Values(a) : EventDecoded(a, v)
    \/ EventIgnored
    \/ CloseStream
    \/ Recv
    \/ RecvDisconnected
    \/ StopScan
    \/ \E u \in BOOLEAN : Handoff(u)
    \/ HandoffErr
    \/ PrintStdout
    \/ ListPending
    \/ DrainStep
    \/ PostFresh
    \/ CacheMeasurements

SpecCollect == CollectInit /\ [][CollectNext]_vars

\* The callback thread and the collecting loop are both scheduled: a
\* measurement in the channel is received, and a closed channel is noticed.
FairCollect ==
    /\ SpecCollect
    /\ WF_vars(Recv)
    /\ WF_vars(RecvDisconnected)
    /\ WF_vars(StopScan)

CollectTypeOK ==
    /\ sensors \in Tables
    /\ cpc \in {"setup", "scan", "stop", "returned", "handed",
                "err_setup", "err_recv", "err_stop"}
    /\ producer \in {"running", "closed"}
    /\ events \in 0 .. MaxEvents
    /\ Len(sent) + dropped <= events
    /\ \A i \in 1 .. Len(queue) : queue[i].address \in Addresses
    /\ DOMAIN measurements \subseteq Aliases

TypeOK ==
    /\ DOMAIN store \subseteq ClockValues
    /\ \A n \in DOMAIN store : store[n] \in 1 .. MaxBatch \/ store[n] = Corrupt
    /\ dirExists \in BOOLEAN
    /\ pc \in {"idle", "stdout", "list", "drain", "fresh", "cache", "done"}
    /\ url \in BOOLEAN
    /\ fresh \in {0} \cup Batches
    /\ nextId \in 1 .. MaxBatch + 1
    /\ drainErr \in {"none", "list", "open", "parse", "post", "remove"}
    /\ exit \in {"none", "ok", "err"}
    /\ out \in 0 .. MaxBatch
    /\ healthy => \A n \in DOMAIN store : store[n] # Corrupt
    /\ persisted \subseteq 1 .. MaxBatch
    /\ \A b \in Batches : acks[b] \in 0 .. MaxBatch /\ removeFails[b] \in 0 .. MaxBatch
    /\ DOMAIN store0 \subseteq ClockValues
    /\ healthy \in BOOLEAN

----------------------------------------------------------------------------
(* Properties *)

\* Batch b is the content of a cache file.
InStore(b) == \E n \in DOMAIN store : store[n] = b

\* The batches POSTed by this invocation, in order.
LogBatches == [i \in 1 .. Len(log) |-> log[i].batch]

\* This invocation POSTed batch b.
Attempted(b) == \E i \in 1 .. Len(log) : log[i].batch = b

\* An invocation with --url has returned from run().
Ended == pc = "done" /\ url /\ fresh # 0

\* C1: an invocation with a sink that collected its batch and ended with
\* success has had the fresh batch acknowledged by the sink or has it in the
\* cache at exit, whatever the drain and the fresh POST did.
C1_FreshDeliveredOrCached ==
    (Ended /\ exit = "ok") => (acks[fresh] > 0 \/ InStore(fresh))

\* C1 happens: an invocation whose drain failed ended with success and the
\* fresh batch, never acknowledged, is in the cache.
C1_Witness ==
    /\ Ended /\ exit = "ok"
    /\ drainErr # "none"
    /\ acks[fresh] = 0
    /\ InStore(fresh)

\* The environment is healthy for good and the cache is drained: no cache
\* file is left and every batch that was persisted has been acknowledged.
Drained == DOMAIN store = {} /\ \A b \in persisted : acks[b] > 0

\* C2: once the sink acknowledges every POST and file operations succeed,
\* repeated invocations eventually get every persisted batch acknowledged
\* and leave the cache empty.
C2_EventuallyDrained == [](healthy => <>Drained)

\* C3 as stated: no batch is acknowledged by the sink more than once.
C3_AckedAtMostOnce == \A b \in Batches : acks[b] <= 1

\* C3 amended: a batch is acknowledged again only after remove_file failed on
\* its cache file following an acknowledged POST: the acknowledgements of a
\* batch number at most one more than those failed removals, and a batch
\* still in the cache has been acknowledged exactly as often as its removal
\* failed.
C3_AckedOncePerRemoval ==
    \A b \in Batches :
        /\ acks[b] <= 1 + removeFails[b]
        /\ InStore(b) => acks[b] = removeFails[b]

\* C3 happens: a batch was acknowledged twice, after one failed removal.
C3_Witness == \E b \in Batches : acks[b] = 2 /\ removeFails[b] = 1

\* The step POSTs a batch.
PostStep == Len(log') > Len(log)

\* C4: batches are POSTed oldest first: no batch is POSTed while an older
\* batch is in the cache and was never acknowledged.
C4_OldestFirst ==
    [][PostStep =>
         LET b == log'[Len(log')].batch
         IN  \A n \in DOMAIN store :
                (store[n] \in Batches /\ store[n] < b) => acks[store[n]] > 0]_vars

\* The step gets content c acknowledged by the sink.
AckedNow(c) == c \in Batches /\ acks'[c] = acks[c] + 1

\* C5 as stated: a step of the drain deletes a cache file if and only if the
\* sink acknowledged that file's batch in the step, and a failed attempt
\* leaves the cache unchanged.
C5_DeletedIffAcked ==
    [][pc = "drain" =>
         LET c == store[Head(paths)]
         IN  /\ \A m \in DOMAIN store :
                  (m \notin DOMAIN store') <=> (m = Head(paths) /\ AckedNow(c))
             /\ ~AckedNow(c) => store' = store]_vars

\* C5 amended: a step of the drain deletes a cache file only if the sink
\* acknowledged that file's batch in the step; an acknowledged file is
\* deleted unless remove_file fails, and then it stays and the drain ends
\* with that error; every other file keeps its content, and a failed attempt
\* leaves the cache unchanged.
C5_DeletedOnlyIfAcked ==
    [][pc = "drain" =>
         LET n == Head(paths)
             c == store[n]
         IN  /\ \A m \in DOMAIN store :
                  (m \notin DOMAIN store') => (m = n /\ AckedNow(c))
             /\ \A m \in DOMAIN store' : m \in DOMAIN store /\ store'[m] = store[m]
             /\ (AckedNow(c) /\ n \in DOMAIN store') =>
                  /\ removeFails'[c] = removeFails[c] + 1
                  /\ drainErr' = "remove"
                  /\ pc' = "cache"
             /\ ~AckedNow(c) => store' = store]_vars

\* C5 happens: the drain deleted an acknowledged file and then kept the next
\* one, whose POST failed.
C5_Witness ==
    /\ Len(log) = 2
    /\ log[1].ok /\ ~InStore(log[1].batch) /\ log[1].path \notin DOMAIN store
    /\ ~log[2].ok /\ InStore(log[2].batch)

\* The drain of this invocation ended at the first failed POST: every POST
\* before it succeeded, it is the last POST of the invocation, and the files
\* after it in the listing were not POSTed.
DrainStopped ==
    /\ log # <<>>
    /\ ~log[Len(log)].ok
    /\ log[Len(log)].path = Head(paths)
    /\ \A i \in 1 .. Len(log) - 1 : log[i].ok
    /\ \A i \in 2 .. Len(paths) : \A j \in 1 .. Len(log) : log[j].path # paths[i]

\* C6 as stated: after the first failed POST of a cached batch no later
\* cached batch is POSTed in the invocation and the fresh batch is in the
\* cache when the invocation ends.
C6_AbortAndPersist ==
    (Ended /\ drainErr = "post") => (DrainStopped /\ InStore(fresh))

\* C6 amended: after the first failed POST of a cached batch no later cached
\* batch is POSTed in the invocation, and cache_measurements is called on the fresh batch: the invocation ends with
\* success and the fresh batch in the cache, or, if that write fails, with an
\* error and the fresh batch not in the cache.
C6_AbortAndTryPersist ==
    (url /\ drainErr = "post") =>
        /\ pc \in {"cache", "done"}
        /\ DrainStopped
        /\ pc = "done" => /\ exit \in {"ok", "err"}
                          /\ exit = "ok" <=> InStore(fresh)

\* C6 happens: the POST of the first of two cached batches failed, the second
\* was left alone and the fresh batch was cached.
C6_Witness ==
    /\ Ended /\ drainErr = "post" /\ exit = "ok"
    /\ Len(paths) = 2
    /\ Len(log) = 1
    /\ InStore(fresh)

\* C7 as stated: the fresh batch is POSTed when no cached batch existed and
\* also when the drain ended with a failure.
C7_FreshAlwaysAttempted ==
    (Ended /\ (DOMAIN store0 = {} \/ drainErr # "none")) => Attempted(fresh)

\* C7 amended: the fresh batch is POSTed exactly when
\* upload_cached_measurements returned Ok, which includes the case of no
\* cached batch; when the drain ended with a failure the fresh batch is not
\* POSTed.
C7_FreshAttemptedIffDrainOk ==
    Ended => /\ Attempted(fresh) <=> drainErr = "none"
             /\ Attempted(fresh) => log[Len(log)].batch = fresh

\* C7 happens: no cached batch existed and the only POST of the invocation
\* was the fresh batch.
C7_Witness ==
    /\ Ended /\ DOMAIN store0 = {} /\ drainErr = "none"
    /\ LogBatches = <<fresh>>

\* Every POST of this invocation was acknowledged.
AllAcked == \A i \in 1 .. Len(log) : log[i].ok

\* The POSTs of this invocation so far are cached batches, each read from a
\* file that was in the cache at the start, in ascending file name order.
PendingInOrder(k) ==
    /\ \A i \in 1 .. k : /\ log[i].path \in DOMAIN store0
                         /\ log[i].batch = store0[log[i].path]
    /\ \A i, j \in 1 .. k : i < j => PathLess(log[i].path, log[j].path)

\* After the k POSTs of cached batches and the POST of the fresh batch the
\* cache is empty.
KPlusOne(k) ==
    /\ Len(log) = k + 1
    /\ PendingInOrder(k)
    /\ log[k + 1].batch = fresh /\ log[k + 1].path = 0
    /\ DOMAIN store = {}

PersistStep == pc = "cache" /\ pc' = "done" /\ exit' = "ok"

\* C9: persisting a batch adds one cache file and leaves every file that was
\* there in place with its content, whatever the clock reads.
C9_PersistAddsEntry ==
    [][PersistStep =>
         /\ Cardinality(DOMAIN store') = Cardinality(DOMAIN store) + 1
         /\ \A n \in DOMAIN store : n \in DOMAIN store' /\ store'[n] = store[n]]_vars

\* upload_cached_measurements failed on listing or reading the cache.
StoreReadError == drainErr \in {"list", "open", "parse"}

\* C10 as stated: an error of listing or reading the cache during the drain
\* ends the invocation with an error.
C10_StoreErrorIsFatal == (Ended /\ StoreReadError) => exit = "err"

\* C10 amended: an error of listing or reading the cache during the drain
\* ends the drain; the fresh batch is not POSTed but handed to
\* cache_measurements, and the invocation ends with success if that write
\* succeeds (the fresh batch is then in the cache) and with an error only if
\* it fails.
C10_StoreErrorCachesFresh ==
    (url /\ StoreReadError) =>
        /\ pc \in {"cache", "done"}
        /\ ~Attempted(fresh)
        /\ pc = "done" => /\ exit \in {"ok", "err"}
                          /\ exit = "ok" <=> InStore(fresh)

\* C10 happens: listing the cache failed and the invocation ended with
\* success, the fresh batch cached.
C10_Witness ==
    /\ Ended /\ drainErr = "list" /\ exit = "ok"
    /\ log = <<>>
    /\ InStore(fresh)

\* The last POST of this invocation was the fresh batch and it failed.
FreshPostFailed ==
    /\ url /\ fresh # 0
    /\ log # <<>>
    /\ log[Len(log)].path = 0 /\ log[Len(log)].batch = fresh
    /\ ~log[Len(log)].ok

\* C11: when the POST of the fresh batch fails, cache_measurements is called
\* and the invocation ends with success if that write succeeds and with an
\* error if it fails; it never ends with an error while the fresh batch was
\* cached.
C11_FailedDeliveryExit ==
    FreshPostFailed =>
        /\ pc \in {"cache", "done"}
        /\ pc = "done" => /\ exit \in {"ok", "err"}
                          /\ exit = "ok" <=> fresh \in persisted
                          /\ exit = "err" <=> ~InStore(fresh)

\* C11 happens: the POST of the fresh batch failed, the write of the cache
\* file failed too and the invocation ended with an error.
C11_Witness ==
    /\ FreshPostFailed /\ pc = "done"
    /\ drainErr = "none"
    /\ exit = "err"
    /\ ~InStore(fresh)

\* C12: without --url the invocation prints the batch, ends with success and
\* never reaches the listing, the drain, a POST or cache_measurements: no
\* POST is made and the cache is as it was when the invocation started.
C12_StdoutOnly ==
    (~url /\ fresh # 0) =>
        /\ pc \in {"stdout", "done"}
        /\ log = <<>>
        /\ paths = <<>> /\ drainErr = "none"
        /\ store = store0
        /\ fresh \notin persisted
        /\ pc = "done" => (out = fresh /\ exit = "ok")

\* C12 happens: an invocation without --url ended, with batches waiting in
\* the cache that it left alone.
C12_Witness ==
    /\ ~url /\ fresh # 0 /\ pc = "done"
    /\ out = fresh
    /\ DOMAIN store # {}

\* The name is "<stem>.json" with a stem that is not empty.
IsJsonName(e) ==
    /\ Len(e) > 5
    /\ SubSeq(e, Len(e) - 4, Len(e)) = <<46, 106, 115, 111, 110>>

\* The entries a listing has to return.
JsonFiles == {e \in DOMAIN dirents : dirents[e] = "file" /\ IsJsonName(e)}

\* C13: the listing returns exactly the regular files named "<stem>.json",
\* each once, in ascending name order, in whatever order the directory
\* yielded them; for a directory that does not exist it returns the empty
\* sequence and no error.
C13_ListingSortedJson ==
    /\ (fpc = "returned" /\ meta = "dir") =>
           /\ {result[i] : i \in 1 .. Len(result)} = JsonFiles
           /\ Len(result) = Cardinality(JsonFiles)
           /\ \A i, j \in 1 .. Len(result) : i < j => LexLess(result[i], result[j])
    /\ meta = "notfound" => (fpc \in {"start", "returned"} /\ result = <<>>)

\* C13 happens: a listing returned 10.json, 11.json, 9.json, in that order,
\* from a directory that yielded 9.json first and also holds "10.txt" and a
\* directory ".json".
C13_Witness ==
    /\ fpc = "returned" /\ meta = "dir"
    /\ result = <<FileName(10), FileName(11), FileName(9)>>
    /\ Decimal(10) \o <<46, 116, 120, 116>> \in DOMAIN dirents
    /\ <<46, 106, 115, 111, 110>> \in DOMAIN dirents

\* No two addresses of the table share an alias.
DistinctAliases ==
    \A a, b \in DOMAIN sensors : a # b => sensors[a] # sensors[b]

\* The aliases of the table.
TableAliases == {sensors[a] : a \in DOMAIN sensors}

\* The sequence q of measurements has one of every address of the table.
Covered(q) == \A a \in DOMAIN sensors : \E i \in 1 .. Len(q) : q[i].address = a

\* The batch ms has one entry per address of the table and holds every alias.
Full(ms) ==
    /\ DOMAIN ms = TableAliases
    /\ Cardinality(DOMAIN ms) = Cardinality(DOMAIN sensors)

\* collect_measurements has started its loop and run() has not taken its
\* result yet.
Collecting == cpc \in {"scan", "stop", "returned", "err_recv", "err_stop"}

\* C14 as stated: with pairwise distinct aliases, once the events consumed
\* cover every address of the table, collect has left its loop and returns a
\* batch with one entry per address that holds every alias.
C14_CoveredReturns ==
    (DistinctAliases /\ Collecting /\ Covered(consumed)) =>
        (cpc \in {"stop", "returned"} /\ Full(measurements))

\* C14, amended: with n >= 1 pairwise distinct aliases, once the events
\* consumed cover every address of the table, in whatever order and with
\* whatever foreign or ignored events in between, collect has left its loop
\* with a batch of exactly n entries that holds every alias, and returns it or,
\* when stop_scan fails, that error; a batch it returns is such a batch; and a
\* collect whose channel holds or has delivered events that cover the table
\* does come to that end.
C14_CoveredReturnsUnlessStopFails ==
    /\ [](  (DistinctAliases /\ DOMAIN sensors # {} /\ Collecting /\ Covered(consumed))
              => (cpc \in {"stop", "returned", "err_stop"} /\ Full(measurements)))
    /\ []((DistinctAliases /\ cpc = "returned") => Full(measurements))
    /\ (DistinctAliases /\ DOMAIN sensors # {} /\ cpc = "scan"
            /\ Covered(consumed \o queue))
          ~> (cpc \in {"returned", "err_stop"} /\ Full(measurements))

\* C14 happens: a table of two addresses, a foreign event consumed first, the
\* two addresses in descending order, an ignored event, and the batch returned.
C14_Witness ==
    /\ cpc = "returned"
    /\ Cardinality(DOMAIN sensors) = 2 /\ DistinctAliases
    /\ Len(consumed) = 3
    /\ consumed[1].address \notin DOMAIN sensors
    /\ consumed[2].address > consumed[3].address
    /\ events > Len(sent)
    /\ Full(measurements)

C16_OnlyCompleteBatchExposed ==
    /\ DOMAIN measurements \subseteq TableAliases
    /\ Cardinality(DOMAIN measurements) <= Cardinality(DOMAIN sensors)
    /\ cpc # "handed" =>
           /\ fresh = 0
           /\ log = <<>> /\ out = 0
           /\ store = store0 /\ ~\E b \in persisted : b >= nextId
    /\ (fresh # 0 \/ pc \notin {"idle", "done"}) =>
           /\ cpc = "handed"
           /\ Full(measurements)
           /\ Cardinality(DOMAIN measurements) = Cardinality(TableAliases)

\* C16 happens: a batch of two entries for a table of two aliases was handed
\* to run(), its POST failed and it was cached.
C16_Witness ==
    /\ cpc = "handed" /\ pc = "done"
    /\ Cardinality(DOMAIN sensors) = 2
    /\ Cardinality(DOMAIN measurements) = 2
    /\ log # <<>>
    /\ fresh \in persisted /\ InStore(fresh)

\* The loop waits on a channel that is empty and whose Sender is gone.
StreamClosedEarly == cpc = "scan" /\ queue = <<>> /\ producer = "closed"

\* C17: when the channel is closed and empty while the batch is incomplete,
\* the only step collect takes is to return the error of recv(); it then
\* never returns a batch, and the invocation posts nothing, prints nothing,
\* leaves the cache as it was and ends with an error.
C17_StreamClosedIsFatal ==
    /\ [][(StreamClosedEarly /\ cpc' # cpc)
            => (cpc' = "err_recv" /\ measurements' = measurements)]_vars
    /\ [][cpc = "err_recv" => cpc' = "err_recv"]_vars
    /\ [](cpc = "err_recv" =>
            /\ fresh = 0
            /\ log = <<>> /\ out = 0
            /\ store = store0 /\ paths = <<>>
            /\ pc \in {"idle", "done"}
            /\ pc = "done" => exit = "err")

\* C17 happens: the channel closed while one of two addresses was still
\* missing, and the invocation ended with the error, the cached file of an
\* earlier invocation untouched.
C17_Witness ==
    /\ cpc = "err_recv"
    /\ Cardinality(DOMAIN sensors) = 2
    /\ Cardinality(DOMAIN measurements) = 1
    /\ pc = "done" /\ exit = "err"
    /\ DOMAIN store # {}

RECURSIVE LastFor(_, _)
\* The last measurement of address a in the sequence q (<<>>: none).
LastFor(a, q) ==
    IF q = <<>> THEN <<>>
    ELSE IF q[Len(q)].address = a THEN q[Len(q)]
    ELSE LastFor(a, SubSeq(q, 1, Len(q) - 1))

\* collect has left its loop with a complete batch.
Completed == cpc \in {"stop", "returned"}

\* C18: the entry of a complete batch for the alias of an address is the last
\* measurement of that address that was consumed, and once the batch is
\* complete no event is consumed and the batch does not change, whatever
\* arrives.
C18_MostRecentWins ==
    /\ [](Completed =>
            \A a \in DOMAIN sensors :
                measurements[sensors[a]] = LastFor(a, consumed))
    /\ [][Completed => (measurements' = measurements
                          /\ (cpc' # "handed" => consumed' = consumed))]_vars
    /\ [][cpc = "handed" => measurements' = measurements]_vars

\* C18 happens: an address was consumed twice with different values, the
\* batch returned holds the second, and a measurement sent after completion
\* was not consumed.
C18_Witness ==
    /\ cpc = "returned"
    /\ Len(consumed) >= 2
    /\ consumed[1].address \in DOMAIN sensors
    /\ consumed[2].address = consumed[1].address
    /\ consumed[2].value # consumed[1].value
    /\ measurements[sensors[consumed[1].address]].value = consumed[2].value
    /\ Len(sent) > Len(consumed)

\* C19 as stated: the channel neither loses nor reorders a measurement, a
\* send never fails the callback, and the collector is out of its loop once
\* it has received what the producer sent for every address of the table.
C19_LosslessAndCompletes ==
    /\ RxAlive => consumed \o queue = sent
    /\ producer # "panicked"
    /\ (Collecting /\ Covered(consumed)) => cpc # "scan"

\* C19, amended: while the Receiver exists, what was received followed by
\* what is in the channel is what was sent, in the order sent, so nothing sent
\* before or between two recv() calls is lost; a send made after the Receiver
\* is gone returns at once and leaves the callback running; and for a table
\* of n >= 1 addresses with pairwise distinct aliases the collector, once
\* measurements of all addresses have been sent, leaves its loop with all of
\* them received, also when all were sent before its first recv().
C19_LosslessAndCompletesIfDistinct ==
    /\ [](RxAlive => consumed \o queue = sent)
    /\ [](producer \in {"running", "closed"})
    /\ [][dropped' > dropped => (producer' = "running" /\ cpc' = cpc)]_vars
    /\ []((DistinctAliases /\ DOMAIN sensors # {} /\ Collecting /\ Covered(consumed))
            => cpc # "scan")
    /\ (DistinctAliases /\ DOMAIN sensors # {} /\ cpc = "scan" /\ Covered(sent))
          ~> (cpc # "scan" /\ Covered(consumed))

\* C19 happens: the measurements of both addresses were received in the order
\* sent, the batch was returned, and a later send found the Receiver gone and
\* left the callback running.
C19_Witness ==
    /\ cpc = "returned"
    /\ Cardinality(DOMAIN sensors) = 2
    /\ consumed = sent /\ Len(sent) = 2
    /\ dropped >= 1
    /\ producer = "running"

\* The measurements of both addresses are in the channel before the first
\* recv().
AllSentBeforeFirstRecv ==
    /\ cpc = "scan"
    /\ consumed = <<>>
    /\ Cardinality(DOMAIN sensors) = 2 /\ DistinctAliases
    /\ Covered(queue)

\* C20: when two addresses of the table have the same alias, the batch always
\* has fewer entries than the table has addresses, collect never leaves its
\* loop with a batch, and the invocation either still waits or has ended
\* with an error, without a batch.
C20_DuplicateAliasNeverCompletes ==
    ~DistinctAliases =>
        /\ Cardinality(DOMAIN measurements) < Cardinality(DOMAIN sensors)
        /\ cpc \in {"setup", "err_setup", "scan", "err_recv"}
        /\ fresh = 0
        /\ pc \in {"idle", "done"}
        /\ pc = "done" => exit = "err"

\* C20 happens: both addresses share an alias, measurements of both were
\* consumed, each more than once, and the loop still waits.
C20_Witness ==
    /\ ~DistinctAliases
    /\ cpc = "scan"
    /\ Covered(consumed)
    /\ Len(consumed) = MaxEvents
    /\ \A i \in 1 .. Len(consumed) : consumed[i].address \in DOMAIN sensors
    /\ Cardinality(DOMAIN measurements) = 1

====
